---- MODULE Spec2Model ----
(***************************************************************************)
(* A model of solr_post (src/src/lib.rs): the glob scan, the parallel      *)
(* content filter that builds the work set, the buffer_unordered upload    *)
(* stream with its completion loop, the commit request and the observer    *)
(* callbacks.                                                              *)
(***************************************************************************)
EXTENDS FiniteSets, Integers, Sequences, TLC

\* ------------------------------------------------------------------ bounds

\* The largest number of entries the glob walk returns.
MaxFiles == 3

\* The largest value of PostConfig.concurrency (0 is included: it is a usize).
MaxConcurrency == 3

\* ------------------------------------------------------- program constants

\* PostConfig::default() port, also the port of the commit URL literal.
DefaultPort == 8983

\* ------------------------------------------------------------------- state

VARIABLES
    config,                 \* PostConfig: concurrency, endpoint fields, regex options
    dir,                    \* the directory: what the walk and the reads find, per path
    pc,                     \* where solr_post is
    files,                  \* Vec<Result<WalkEntry, WalkError>>: the walked paths
    solr_collection_update_endpoint,
    wstat,                  \* per walked entry: where its par_iter closure is
    files_to_index,         \* the shared Arc<RwLock<HashSet<String>>>
    files_to_index_set,     \* the clone read after for_each, consumed by the stream
    total_files_to_index,
    tstat,                  \* per work-set member: where its upload future is
    tres,                   \* per work-set member: the result of send().await
    posted,                 \* per work-set member: the POST requests issued for it
    indexed_count,
    cur,                    \* the (res, file_path) the loop body is handling
    events,                 \* the observer callbacks invoked so far, in order
    commits,                \* the commit requests sent so far (their URLs)
    commit_res,             \* the result of the commit request
    ret,                    \* the value solr_post returned
    first_set               \* the work set of an earlier run over the same directory

vars == <<config, dir, pc, files, solr_collection_update_endpoint, wstat,
          files_to_index, files_to_index_set, total_files_to_index, tstat, tres,
          posted, indexed_count, cur, events, commits, commit_res, ret, first_set>>

\* Option<T>: None is the empty sequence, Some(x) the sequence of x alone.
None == <<>>
Some(x) == <<x>>

\* No result yet (of a request).
NoResult == "none"

\* ------------------------------------------------------------------- URLs

\* A URL by its parts; format!("http://{0}:{1}/solr/{2}/update/extract").
ExtractUrl(host, port, collection) ==
    [host |-> host, port |-> port,
     path |-> <<"solr", collection, "update", "extract">>, query |-> <<>>]

\* The literal of the commit request: "http://localhost:8983/solr/portal/update?commit=true".
CommitUrl ==
    [host |-> "localhost", port |-> DefaultPort,
     path |-> <<"solr", "portal", "update">>, query |-> <<<<"commit", "true">>>>]

\* match &config.update_url { Some(url) => url.clone(), None => format!(...) }
UpdateEndpoint(cfg) ==
    IF cfg.update_url # None
    THEN cfg.update_url[1]
    ELSE ExtractUrl(cfg.host, cfg.port, cfg.collection)

\* format!("{0}?resource.name={1}&literal.id={1}", endpoint, file_path_encoded):
\* the encoded absolute path of file f is the token <<"enc", f>>.
SolrPostUrl(endpoint, f) ==
    [endpoint EXCEPT !.query = <<<<"resource.name", <<"enc", f>>>>,
                                 <<"literal.id", <<"enc", f>>>>>>]

\* The server (host, port) and the collection (the segment after "solr") of a URL.
ServerOf(url) == <<url.host, url.port>>
CollectionOf(url) == url.path[2]

\* ------------------------------------------------------------ the inputs

\* The endpoint fields of a PostConfig: the defaults, the collection the commit
\* literal names, another server, and an override update URL.
Endpoints ==
    { [host |-> "localhost", port |-> DefaultPort, collection |-> "collection1",
       update_url |-> None],
      [host |-> "localhost", port |-> DefaultPort, collection |-> "portal",
       update_url |-> None],
      [host |-> "localhost", port |-> DefaultPort, collection |-> "collection1",
       update_url |-> Some(ExtractUrl("solrhost", 8080, "docs"))] }

\* What one path of the directory is: whether the walk yields Ok or Err for
\* it, whether File::open/read_to_string succeed in the filter phase, and
\* whether its content matches the exclude and the include pattern.
Kinds ==
    << [walk |-> "err", readable |-> TRUE,  mx |-> FALSE, mi |-> FALSE],
       [walk |-> "ok",  readable |-> FALSE, mx |-> FALSE, mi |-> FALSE],
       [walk |-> "ok",  readable |-> TRUE,  mx |-> FALSE, mi |-> FALSE],
       [walk |-> "ok",  readable |-> TRUE,  mx |-> FALSE, mi |-> TRUE],
       [walk |-> "ok",  readable |-> TRUE,  mx |-> TRUE,  mi |-> FALSE],
       [walk |-> "ok",  readable |-> TRUE,  mx |-> TRUE,  mi |-> TRUE] >>

\* A directory of n paths. Paths are interchangeable (the walk order is not
\* used: par_iter and a HashSet follow), so one representative per multiset
\* of kinds is taken; a match bit is FALSE when its pattern is not configured.
Directories(cfg) ==
    { d \in UNION { [1..n -> 1..Len(Kinds)] : n \in 0..MaxFiles } :
        /\ \A i \in DOMAIN d : \A j \in DOMAIN d : i <= j => d[i] <= d[j]
        /\ \A i \in DOMAIN d :
              /\ Kinds[d[i]].mx => cfg.exclued_regex
              /\ Kinds[d[i]].mi => cfg.include_regex }

Configs ==
    { [concurrency |-> c, host |-> e.host, port |-> e.port,
       collection |-> e.collection, update_url |-> e.update_url,
       exclued_regex |-> x, include_regex |-> i] :
        c \in 0..MaxConcurrency, e \in Endpoints, x \in BOOLEAN, i \in BOOLEAN }

\* The results a request can have: a success status, a non-success status,
\* a transport error (Err of send().await).
Outcomes == {"success", "status_error", "transport_error"}

Init ==
    /\ config \in Configs
    /\ \E d \in Directories(config) : dir = [i \in DOMAIN d |-> Kinds[d[i]]]
    /\ pc = "Idle"
    /\ files = {}
    /\ solr_collection_update_endpoint = None
    /\ wstat = <<>>
    /\ files_to_index = {}
    /\ files_to_index_set = {}
    /\ total_files_to_index = 0
    /\ tstat = <<>>
    /\ tres = <<>>
    /\ posted = <<>>
    /\ indexed_count = 0
    /\ cur = None
    /\ events = <<>>
    /\ commits = <<>>
    /\ commit_res = NoResult
    /\ ret = None
    /\ first_set = None

\* ---------------------------------------------------------------- scanning

\* Lines 105-108: the glob is built and walked; the entries are collected.
Scan ==
    /\ pc = "Idle"
    /\ pc' = "Scanned"
    /\ files' = DOMAIN dir
    /\ wstat' = [f \in DOMAIN dir |-> "unspawned"]
    /\ UNCHANGED <<config, dir, solr_collection_update_endpoint, files_to_index,
                   files_to_index_set, total_files_to_index, tstat, tres, posted,
                   indexed_count, cur, events, commits, commit_res, ret, first_set>>

\* Lines 110-147: the default headers, the client (both unwrap: a bad
\* credential string or a client that cannot be built panics), the endpoint,
\* and files.par_iter().for_each, which hands every entry to the pool.
Setup ==
    /\ pc = "Scanned"
    /\ \E ok \in BOOLEAN :
          IF ok
          THEN /\ pc' = "Filtering"
               /\ solr_collection_update_endpoint' = Some(UpdateEndpoint(config))
               /\ wstat' = [f \in files |-> "todo"]
          ELSE /\ pc' = "Panicked"
               /\ UNCHANGED <<solr_collection_update_endpoint, wstat>>
    /\ UNCHANGED <<config, dir, files, files_to_index, files_to_index_set,
                   total_files_to_index, tstat, tres, posted, indexed_count, cur,
                   events, commits, commit_res, ret, first_set>>

\* --------------------------------------------------------------- filtering

\* Admit with the include rule deciding first.
AdmitIncludeFirst(cfg, content) ==
    IF cfg.include_regex /\ content.mi
    THEN TRUE
    ELSE IF cfg.exclued_regex /\ content.mx
         THEN FALSE
         ELSE ~cfg.include_regex

\* Lines 157-171: the exclude rule, then the include rule.
Admit(cfg, content) ==
    IF cfg.exclued_regex /\ content.mx
    THEN FALSE
    ELSE IF cfg.include_regex /\ ~content.mi
         THEN FALSE
         ELSE TRUE

\* EntryOutcome with an unreadable file skipped like a rejected one.
EntryOutcomeSkipUnreadable(cfg, entry) ==
    IF entry.walk = "err" THEN "done"
    ELSE IF ~entry.readable THEN "done"
    ELSE IF Admit(cfg, entry) THEN "want"
    ELSE "done"

\* EntryOutcome with the walk entry unwrapped: an Err entry panics.
EntryOutcomeUnwrapEntry(cfg, entry) ==
    IF entry.walk = "err" THEN "panicked"
    ELSE IF ~entry.readable THEN "panicked"
    ELSE IF Admit(cfg, entry) THEN "want"
    ELSE "done"

\* Lines 148-171 for one entry: an Err entry is printed; an Ok entry is
\* opened and read (unwrap: an unreadable file panics the closure), then the
\* rules either return or go on to the write lock.
EntryOutcome(cfg, entry) ==
    IF entry.walk = "err" THEN "done"
    ELSE IF ~entry.readable THEN "panicked"
    ELSE IF Admit(cfg, entry) THEN "want"
    ELSE "done"

WorkerRead(f) ==
    /\ wstat[f] = "todo"
    /\ wstat' = [wstat EXCEPT ![f] = EntryOutcome(config, dir[f])]
    /\ UNCHANGED <<config, dir, pc, files, solr_collection_update_endpoint,
                   files_to_index, files_to_index_set, total_files_to_index, tstat,
                   tres, posted, indexed_count, cur, events, commits, commit_res, ret, first_set>>

\* Line 173: files_to_index.write() returns once no other guard is held.
WorkerLock(f) ==
    /\ wstat[f] = "want"
    /\ \A g \in files : wstat[g] # "locked"
    /\ wstat' = [wstat EXCEPT ![f] = "locked"]
    /\ UNCHANGED <<config, dir, pc, files, solr_collection_update_endpoint,
                   files_to_index, files_to_index_set, total_files_to_index, tstat,
                   tres, posted, indexed_count, cur, events, commits, commit_res, ret, first_set>>

\* WorkerInsert as an unguarded copy-and-store: the set is replaced.
WorkerInsertOverwrite(f) ==
    /\ wstat[f] = "locked"
    /\ files_to_index' = {f}
    /\ wstat' = [wstat EXCEPT ![f] = "done"]
    /\ UNCHANGED <<config, dir, pc, files, solr_collection_update_endpoint,
                   files_to_index_set, total_files_to_index, tstat, tres, posted,
                   indexed_count, cur, events, commits, commit_res, ret, first_set>>

\* Lines 174-175: the insert; the guard is dropped at the end of the arm.
WorkerInsert(f) ==
    /\ wstat[f] = "locked"
    /\ files_to_index' = files_to_index \cup {f}
    /\ wstat' = [wstat EXCEPT ![f] = "done"]
    /\ UNCHANGED <<config, dir, pc, files, solr_collection_update_endpoint,
                   files_to_index_set, total_files_to_index, tstat, tres, posted,
                   indexed_count, cur, events, commits, commit_res, ret, first_set>>

\* AllEvaluated as a join on the closures having started, not ended.
AllStarted(stat) == \A f \in DOMAIN stat : stat[f] # "todo"

\* AllEvaluated without the join: one ended closure is enough.
SomeEvaluated(stat) == \E f \in DOMAIN stat : stat[f] \in {"done", "panicked"}

\* for_each returns when every closure has ended.
AllEvaluated(stat) == \A f \in DOMAIN stat : stat[f] \in {"done", "panicked"}

\* AfterJoin with the upload loop skipped for an empty work set.
AfterJoinSkipUpload(set) == IF set = {} THEN "Committing" ELSE "Filtered"

\* AfterJoin with an early return for an empty work set.
AfterJoinReturnEarly(set) == IF set = {} THEN "Done" ELSE "Filtered"

\* Lines 183-226 run for any work set, an empty one included.
AfterJoin(set) == "Filtered"

\* Lines 177-185: for_each returns (or resumes a closure's panic); the set is
\* read and cloned, its length taken, the stream of futures built.
FilterJoin ==
    /\ pc = "Filtering"
    /\ AllEvaluated(wstat)
    /\ IF \E f \in files : wstat[f] = "panicked"
       THEN /\ pc' = "Panicked"
            /\ UNCHANGED <<files_to_index_set, total_files_to_index, tstat, tres, posted>>
       ELSE /\ pc' = AfterJoin(files_to_index)
            /\ files_to_index_set' = files_to_index
            /\ total_files_to_index' = Cardinality(files_to_index)
            /\ tstat' = [f \in files_to_index |-> "queued"]
            /\ tres' = [f \in files_to_index |-> NoResult]
            /\ posted' = [f \in files_to_index |-> <<>>]
    /\ UNCHANGED <<config, dir, files, solr_collection_update_endpoint, wstat,
                   files_to_index, indexed_count, cur, events, commits, commit_res, ret, first_set>>

\* ---------------------------------------------------------------- uploading

\* StartArg with the progress counter passed.
StartArgCount(total, count) == count

\* The argument of on_start, line 225.
StartArg(total, count) == total

\* Lines 220-226: on_start(total_files_to_index).
OnStart ==
    /\ pc = "Filtered"
    /\ pc' = "Uploading"
    /\ events' = Append(events, <<"on_start", StartArg(total_files_to_index, indexed_count)>>)
    /\ UNCHANGED <<config, dir, files, solr_collection_update_endpoint, wstat,
                   files_to_index, files_to_index_set, total_files_to_index, tstat,
                   tres, posted, indexed_count, cur, commits, commit_res, ret, first_set>>

Tasks == DOMAIN tstat
Remaining == {f \in Tasks : tstat[f] = "queued"}
\* The futures held by the buffer's in_progress_queue.
InProgress == {f \in Tasks : tstat[f] \in {"pushed", "inflight", "resolved"}}
\* The requests sent whose send().await has not been yielded to the loop.
InFlight == {f \in Tasks : tstat[f] \in {"inflight", "resolved"}}

\* FillCount with the loop test off by one: `len + 1 < max`.
FillCountOffByOne(max, inProgress, remaining) ==
    IF max - 1 - inProgress <= 0 THEN 0
    ELSE IF remaining < max - 1 - inProgress THEN remaining
    ELSE max - 1 - inProgress

\* FillCount with an `if` for the `while`: one future at most per poll.
FillCountOne(max, inProgress, remaining) ==
    IF max - inProgress <= 0 \/ remaining = 0 THEN 0 ELSE 1

\* FillCount with the bound ignored: every queued future is pulled.
FillCountUnbounded(max, inProgress, remaining) == remaining

\* BufferUnordered::poll_next, first part: `while in_progress_queue.len() < max`
\* pulls the next future from the iterator and pushes it; k is how many it takes.
FillCount(max, inProgress, remaining) ==
    IF max - inProgress <= 0 THEN 0
    ELSE IF remaining < max - inProgress THEN remaining
    ELSE max - inProgress

\* StreamEnded without the iterator: an empty queue alone ends the stream.
StreamEndedOnEmptyQueue(max, inProgress, remaining) == inProgress = 0 /\ max > 0

\* The end of the stream: the queue is empty and the fused iterator has
\* returned None, which the fill loop only sees when it runs (len < max).
StreamEnded(max, inProgress, remaining) ==
    inProgress = 0 /\ remaining = 0 /\ max > 0

\* AfterUnwrapFailure with the failure absorbed: the loop goes on.
AfterUnwrapFailureAbsorbed == "Uploading"

\* Lines 188-196: canonicalize(), File::open() and read_to_string() are
\* unwrapped inside the future: a failure unwinds through poll_next and
\* solr_post.
AfterUnwrapFailure == "Panicked"

\* Line 229, posts.next().await, one poll of the stream. The fill loop takes
\* `pulled` from the iterator (a HashSet: any members). The queue then polls
\* its woken futures in turn: a future polled for the first time runs lines
\* 186-214 (canonicalize and read the file, unwrap: a file gone since the
\* filter phase panics; otherwise the POST is sent), `started` are the ones
\* that got that far; a future whose response has arrived is yielded at once,
\* leaving the futures behind it unpolled. With nothing to yield and the
\* stream not ended the poll is Pending: solr_post waits to be woken.
Poll ==
    /\ pc = "Uploading"
    /\ LET k == FillCount(config.concurrency, Cardinality(InProgress), Cardinality(Remaining))
       IN \E pulled \in {S \in SUBSET Remaining : Cardinality(S) = k} :
          LET fresh == pulled \cup {f \in Tasks : tstat[f] = "pushed"}
              ready == {f \in Tasks : tstat[f] = "resolved"}
              Send(started) ==
                  /\ posted' = [f \in Tasks |->
                                  IF f \in started
                                  THEN Append(posted[f],
                                              SolrPostUrl(solr_collection_update_endpoint[1], f))
                                  ELSE posted[f]]
          IN \/ \* a response is there: it is yielded, after some first polls
                /\ \E r \in ready : \E started \in SUBSET fresh :
                      /\ Send(started)
                      /\ tstat' = [f \in Tasks |->
                                     IF f = r THEN "done"
                                     ELSE IF f \in started THEN "inflight"
                                     ELSE IF f \in pulled THEN "pushed"
                                     ELSE tstat[f]]
                      /\ cur' = Some(r)
                      /\ pc' = "Body"
             \/ \* a first poll panics: the run is over
                /\ \E p \in fresh : \E started \in SUBSET (fresh \ {p}) :
                      /\ Send(started)
                      /\ tstat' = [f \in Tasks |->
                                     IF f = p THEN "panicked"
                                     ELSE IF f \in started THEN "inflight"
                                     ELSE IF f \in pulled THEN "pushed"
                                     ELSE tstat[f]]
                      /\ cur' = cur
                      /\ pc' = AfterUnwrapFailure
             \/ \* nothing to yield: every new future is started; Pending or the end
                /\ ready = {}
                /\ Send(fresh)
                /\ tstat' = [f \in Tasks |-> IF f \in fresh THEN "inflight" ELSE tstat[f]]
                /\ cur' = cur
                /\ pc' = IF StreamEnded(config.concurrency, Cardinality(InProgress),
                                        Cardinality(Remaining))
                         THEN "Committing" ELSE "Awaiting"
    /\ UNCHANGED <<config, dir, files, solr_collection_update_endpoint, wstat,
                   files_to_index, files_to_index_set, total_files_to_index, tres,
                   indexed_count, events, commits, commit_res, ret, first_set>>

\* The server (or the transport) answers request f; the future's waker
\* wakes solr_post if it waits in posts.next().await.
Resolve(f) ==
    /\ tstat[f] = "inflight"
    /\ \E o \in Outcomes : tres' = [tres EXCEPT ![f] = o]
    /\ tstat' = [tstat EXCEPT ![f] = "resolved"]
    /\ pc' = IF pc = "Awaiting" THEN "Uploading" ELSE pc
    /\ UNCHANGED <<config, dir, files, solr_collection_update_endpoint, wstat,
                   files_to_index, files_to_index_set, total_files_to_index, posted,
                   indexed_count, cur, events, commits, commit_res, ret, first_set>>

\* CountAfter with the increment inside the success branch only.
CountAfterSuccessOnly(count, res) ==
    IF res = "success" THEN count + 1 ELSE count

\* Lines 230-253, the loop body on a result: the Ok arm logs, increments
\* indexed_count and calls on_next; the Err arm prints the error.
CountAfter(count, res) ==
    IF res \in {"success", "status_error"} THEN count + 1 ELSE count

NotifiesNext(res) == res \in {"success", "status_error"}

\* AfterBody with the Err arm leaving the loop.
AfterBodyBreakOnError(res) ==
    IF res = "transport_error" THEN "Committing" ELSE "Uploading"

\* Both arms fall through to the next posts.next().await.
AfterBody(res) == "Uploading"

Body ==
    /\ pc = "Body"
    /\ indexed_count' = CountAfter(indexed_count, tres[cur[1]])
    /\ events' = IF NotifiesNext(tres[cur[1]])
                 THEN Append(events, <<"on_next", indexed_count'>>)
                 ELSE events
    /\ cur' = None
    /\ pc' = AfterBody(tres[cur[1]])
    /\ UNCHANGED <<config, dir, files, solr_collection_update_endpoint, wstat,
                   files_to_index, files_to_index_set, total_files_to_index, tstat,
                   tres, posted, commits, commit_res, ret, first_set>>

\* --------------------------------------------------------------- committing

\* Lines 256-260: the commit GET is sent, to the literal URL.
CommitTarget(endpoint) == CommitUrl

CommitSend ==
    /\ pc = "Committing"
    /\ commits' = Append(commits, CommitTarget(solr_collection_update_endpoint[1]))
    /\ pc' = "CommitWait"
    /\ UNCHANGED <<config, dir, files, solr_collection_update_endpoint, wstat,
                   files_to_index, files_to_index_set, total_files_to_index, tstat,
                   tres, posted, indexed_count, cur, events, commit_res, ret, first_set>>

\* ReturnValue with the progress counter returned.
ReturnIndexedCount(total, count) == count

\* Line 284: the value returned.
ReturnValue(total, count) == total

\* Lines 262-285: the commit's result is logged whatever it is, on_finish is
\* called and total_files_to_index returned.
CommitDone ==
    /\ pc = "CommitWait"
    /\ \E o \in Outcomes : commit_res' = o
    /\ events' = Append(events, <<"on_finish", 0>>)
    /\ ret' = Some(ReturnValue(total_files_to_index, indexed_count))
    /\ pc' = "Done"
    /\ UNCHANGED <<config, dir, files, solr_collection_update_endpoint, wstat,
                   files_to_index, files_to_index_set, total_files_to_index, tstat,
                   tres, posted, indexed_count, cur, commits, first_set>>

Next ==
    \/ Scan
    \/ Setup
    \/ \E f \in files : WorkerRead(f)
    \/ \E f \in files : WorkerLock(f)
    \/ \E f \in files : WorkerInsert(f)
    \/ FilterJoin
    \/ OnStart
    \/ Poll
    \/ \E f \in Tasks : Resolve(f)
    \/ Body
    \/ CommitSend
    \/ CommitDone

Spec == Init /\ [][Next]_vars

\* The scheduling the runtimes give: a pool closure that can step does, the
\* woken task is polled, a request sent is answered. Every step of Next
\* moves its thread or request forward, so no step can be taken for ever in
\* place of another.
FairSpec == Spec /\ WF_vars(Next)

\* The tool is run again, with the same configuration, over the directory as
\* it is: the first run's work set is kept for comparison.
Rerun ==
    /\ pc = "Done"
    /\ first_set = None
    /\ first_set' = Some(files_to_index_set)
    /\ pc' = "Idle"
    /\ files' = {}
    /\ solr_collection_update_endpoint' = None
    /\ wstat' = <<>>
    /\ files_to_index' = {}
    /\ files_to_index_set' = {}
    /\ total_files_to_index' = 0
    /\ tstat' = <<>>
    /\ tres' = <<>>
    /\ posted' = <<>>
    /\ indexed_count' = 0
    /\ cur' = None
    /\ events' = <<>>
    /\ commits' = <<>>
    /\ commit_res' = NoResult
    /\ ret' = None
    /\ UNCHANGED <<config, dir>>

NextTwice == Next \/ Rerun

SpecTwice == Init /\ [][NextTwice]_vars

\* ------------------------------------------------------------------ claims

Min(a, b) == IF a < b THEN a ELSE b

\* The work-set size N of the run.
N == Cardinality(files_to_index_set)

\* The loop of line 229 has ended.
LoopEnded == pc \in {"Committing", "CommitWait", "Done"}

\* The work-set members whose outcome the loop body has handled.
Handled == {f \in Tasks : tstat[f] = "done" /\ cur # Some(f)}

\* The on_next notifications so far, in order.
NextEvents == SelectSeq(events, LAMBDA e : e[1] = "on_next")

\* The decision table: admitted iff (no exclude pattern or no exclude match)
\* and (no include pattern or an include match).
TableAdmits(f) ==
    /\ ~config.exclued_regex \/ ~dir[f].mx
    /\ ~config.include_regex \/ dir[f].mi

\* C1: with a concurrency bound C >= 1, the upload requests started and not
\* yet yielded to the loop number at most min(N, C).
C1_InFlightBounded ==
    config.concurrency >= 1 =>
        Cardinality(InFlight) <= Min(N, config.concurrency)

\* C1 witness: the bound is reached and is what limits: C = 2 requests in
\* flight while a third member waits.
C1_Witness ==
    /\ config.concurrency = 2
    /\ N = 3
    /\ Cardinality(InFlight) = 2
    /\ Remaining # {}

\* C2 (as claimed): every outcome, a transport error included, is counted
\* and notified: when the loop has ended the count is N and on_next was
\* called N times, with 1..N.
C2_EveryOutcomeCounted ==
    LoopEnded =>
        /\ indexed_count = N
        /\ NextEvents = [i \in 1..N |-> <<"on_next", i>>]

\* C3: a non-success status counts as processed: the count is the number of
\* handled members whose request got a response (success or not), on_next was
\* called with 1..count, the admitted count stays N, and when the loop has
\* ended every member has been uploaded once and has its outcome.
C3_StatusErrorCounted ==
    /\ indexed_count = Cardinality({f \in Handled : tres[f] \in {"success", "status_error"}})
    /\ NextEvents = [i \in 1..indexed_count |-> <<"on_next", i>>]
    /\ pc \notin {"Idle", "Scanned", "Filtering", "Panicked"} => total_files_to_index = N
    /\ (LoopEnded /\ \E f \in Tasks : tres[f] = "status_error") =>
          \A f \in Tasks : tstat[f] = "done" /\ tres[f] \in Outcomes /\ Len(posted[f]) = 1

\* C3 witness: of three members one got a non-success status first and was
\* counted; the others were uploaded after it and the loop ended.
C3_Witness ==
    /\ LoopEnded
    /\ N = 3
    /\ config.concurrency = 1
    /\ Cardinality({f \in Tasks : tres[f] = "status_error"}) = 1
    /\ Cardinality({f \in Tasks : tres[f] = "success"}) = 2
    /\ indexed_count = 3

\* C4: a transport error neither ends the loop nor is retried: no member
\* ever has two POSTs, a member has a POST exactly when its future was
\* started, the body goes back to the stream after any result, and when the
\* loop has ended every member has exactly one POST and an outcome.
C4_Inv ==
    /\ \A f \in Tasks :
          /\ Len(posted[f]) <= 1
          /\ Len(posted[f]) = 1 <=> tstat[f] \in {"inflight", "resolved", "done"}
    /\ LoopEnded =>
          \A f \in Tasks : Len(posted[f]) = 1 /\ tstat[f] = "done" /\ tres[f] \in Outcomes

\* C4, as a property of behaviours: the state part always holds, and every
\* step that leaves the loop body, whatever the result was, returns to the
\* stream.
C4_OnePostEach ==
    /\ []C4_Inv
    /\ [][(pc = "Body" /\ pc' # "Body") => pc' = "Uploading"]_vars

\* C4 witness: the first request failed in transport while the other two
\* members were not started; both were started later and the loop ended.
C4_Witness ==
    /\ LoopEnded
    /\ N = 3
    /\ config.concurrency = 1
    /\ indexed_count = 2
    /\ Cardinality({f \in Tasks : tres[f] = "transport_error"}) = 1
    /\ \A f \in Tasks : Len(posted[f]) = 1

\* C5: the callbacks come in order: on_start first, once, with N; then the
\* on_next calls; on_finish last, once, and only when the run is done.
C5_CallbackOrder ==
    /\ events # <<>> => events[1] = <<"on_start", N>>
    /\ \A i \in 2..Len(events) : events[i][1] # "on_start"
    /\ \A i \in 1..Len(events) :
          events[i][1] = "on_finish" => i = Len(events) /\ i >= 2 /\ pc = "Done"
    /\ \A i \in 2..Len(events) :
          events[i][1] = "on_next" \/ events[i][1] = "on_finish"
    /\ pc = "Done" => events[Len(events)] = <<"on_finish", 0>>
    /\ pc \in {"Uploading", "Awaiting", "Body", "Committing", "CommitWait"} => events # <<>>

\* C5 witness: a completed run of three members: on_start(3), on_next 1, 2,
\* 3, on_finish.
C5_Witness ==
    /\ pc = "Done"
    /\ events = << <<"on_start", 3>>, <<"on_next", 1>>, <<"on_next", 2>>,
                   <<"on_next", 3>>, <<"on_finish", 0>> >>

\* C6: the commit is sent once, after the stream has drained: no commit
\* before the loop ends, at most one ever, exactly one in a finished run, and
\* once it is sent every member is done and nothing is in the queue.
C6_CommitAfterDrain ==
    /\ Len(commits) <= 1
    /\ ~LoopEnded => commits = <<>>
    /\ pc \in {"CommitWait", "Done"} => Len(commits) = 1
    /\ commits # <<>> =>
          /\ InProgress = {}
          /\ Remaining = {}
          /\ \A f \in Tasks : tstat[f] = "done" /\ tres[f] \in Outcomes

\* C6 witness: the commit is out after three uploads, with a bound of 2.
C6_Witness ==
    /\ pc = "CommitWait"
    /\ Len(commits) = 1
    /\ N = 3
    /\ config.concurrency = 2

\* C7 (as claimed): the commit goes to the server and the collection of the
\* run's update endpoint.
C7_CommitTargetsEndpoint ==
    \A i \in 1..Len(commits) :
        /\ ServerOf(commits[i]) = ServerOf(solr_collection_update_endpoint[1])
        /\ CollectionOf(commits[i]) = CollectionOf(solr_collection_update_endpoint[1])

\* C8: the value returned is the number of admitted paths, whatever the
\* upload results and the commit result; it is returned exactly when the run
\* is done, and a run whose commit was sent does not fail.
C8_ReturnsAdmitted ==
    /\ pc = "Done" =>
          /\ ret = Some(N)
          /\ N = Cardinality({f \in files : dir[f].walk = "ok" /\ TableAdmits(f)})
    /\ ret # None <=> pc = "Done"
    /\ commits # <<>> => pc \in {"CommitWait", "Done"}

\* C8 witness: a finished run in which an upload and the commit both failed
\* in transport and another upload got a non-success status: 3 is returned.
C8_Witness ==
    /\ pc = "Done"
    /\ ret = Some(3)
    /\ commit_res = "transport_error"
    /\ \E f \in Tasks : tres[f] = "transport_error"
    /\ \E f \in Tasks : tres[f] = "status_error"

\* C9: the shared set never holds a candidate the table rejects, and the
\* work set read after the filter phase is exactly the candidates the table
\* admits; a candidate matching both patterns is never in it.
C9_AdmissionTable ==
    /\ \A f \in files_to_index : dir[f].walk = "ok" /\ TableAdmits(f)
    /\ pc \notin {"Idle", "Scanned", "Filtering", "Panicked"} =>
          files_to_index_set = {f \in files : dir[f].walk = "ok" /\ TableAdmits(f)}
    /\ \A f \in files_to_index \cup files_to_index_set : ~(dir[f].mx /\ dir[f].mi)

\* C9 witness: both patterns are configured; one file matches both (it is
\* left out), one matches only include (it is the work set), one matches none.
C9_Witness ==
    /\ pc = "Filtered"
    /\ config.exclued_regex /\ config.include_regex
    /\ \E f \in files : dir[f].mx /\ dir[f].mi /\ f \notin files_to_index_set
    /\ \E f \in files : ~dir[f].mx /\ dir[f].mi /\ files_to_index_set = {f}
    /\ \E f \in files : dir[f].walk = "ok" /\ ~dir[f].mx /\ ~dir[f].mi

\* The upload phase has begun: the stream exists.
UploadBegun ==
    pc \in {"Filtered", "Uploading", "Awaiting", "Body", "Committing", "CommitWait", "Done"}

\* C10: nothing of the upload phase happens before every candidate has been
\* evaluated, and once it has begun neither the shared set nor the work set
\* changes.
C10_Inv ==
    (UploadBegun \/ events # <<>> \/ \E f \in Tasks : posted[f] # <<>>) =>
        \A f \in files : wstat[f] = "done"

\* C10, as a property of behaviours: the state part always holds, and no
\* step taken once the upload phase has begun changes either set.
C10_FilterBarrier ==
    /\ []C10_Inv
    /\ [][UploadBegun =>
            /\ files_to_index' = files_to_index
            /\ files_to_index_set' = files_to_index_set]_vars

\* C10 witness: three candidates, all evaluated, two of them inserted, and
\* the first request of the upload phase is out.
C10_Witness ==
    /\ pc = "Awaiting"
    /\ Cardinality(files) = 3
    /\ N = 2
    /\ \E f \in Tasks : posted[f] # <<>>

\* C14: the work set of a second run over the unchanged directory, with the
\* same configuration, has the members of the first run's, whatever the
\* order in which the filter closures of either run stepped.
C14_SameWorkSetTwice ==
    (first_set # None /\ UploadBegun) => files_to_index_set = first_set[1]

\* C14 witness: the second run's filter phase has ended; of three candidates
\* two were admitted, in both runs.
C14_Witness ==
    /\ first_set # None
    /\ pc = "Filtered"
    /\ Cardinality(files) = 3
    /\ N = 2
    /\ Cardinality(first_set[1]) = 2

\* The candidates: the entries the walk yields as Ok.
Candidates == {f \in files : dir[f].walk = "ok"}

\* Some candidate cannot be opened or read in the filter phase.
SomeUnreadable == \E f \in DOMAIN dir : dir[f].walk = "ok" /\ ~dir[f].readable

\* C11: with a candidate that cannot be read, the run fails without a
\* partial result: the upload phase is never entered, no request is sent,
\* no callback is called, no commit is sent, nothing is returned; and once
\* every closure has ended the run has failed or is about to.
C11_UnreadableIsFatal ==
    SomeUnreadable =>
        /\ ~UploadBegun
        /\ tstat = <<>> /\ posted = <<>>
        /\ events = <<>>
        /\ commits = <<>>
        /\ ret = None
        /\ files_to_index_set = {}
        /\ \A f \in files : wstat[f] = "panicked" <=> (wstat[f] \notin {"unspawned", "todo"}
                                                        /\ dir[f].walk = "ok"
                                                        /\ ~dir[f].readable)

\* C11 witness: the run has failed on an unreadable candidate after another
\* candidate was inserted into the shared set; that set went nowhere.
C11_Witness ==
    /\ pc = "Panicked"
    /\ \E f \in files : wstat[f] = "panicked"
    /\ files_to_index # {}
    /\ files_to_index_set = {}

\* C12: a walk error is absorbed by its entry: the entry is never inserted
\* and never panics its closure, and when the filter phase has ended every
\* entry has been evaluated and the work set is what the other entries give.
C12_WalkErrorAbsorbed ==
    /\ \A f \in files : dir[f].walk = "err" =>
          /\ f \notin files_to_index
          /\ wstat[f] \in {"unspawned", "todo", "done"}
    /\ (UploadBegun /\ \E f \in files : dir[f].walk = "err") =>
          /\ \A f \in files : wstat[f] = "done"
          /\ files_to_index_set = {f \in Candidates : TableAdmits(f)}

\* C12 witness: a run with one erroring entry and two admitted candidates
\* is done: both were uploaded, the commit was sent, 2 was returned.
C12_Witness ==
    /\ pc = "Done"
    /\ Cardinality({f \in files : dir[f].walk = "err"}) = 1
    /\ N = 2
    /\ \A f \in Tasks : tstat[f] = "done"
    /\ Len(commits) = 1
    /\ ret = Some(2)

\* C13 (as claimed): a concurrency bound of 0 is rejected before anything
\* is scanned: nothing is walked, filtered, notified or uploaded.
C13_ZeroConcurrencyRejected ==
    config.concurrency = 0 =>
        /\ pc \in {"Idle", "Panicked"}
        /\ files = {}
        /\ events = <<>>

\* The closures that hold the write guard.
Holders == {f \in files : wstat[f] = "locked"}

\* The candidates whose closure has ended having decided yes.
DecidedYes == {f \in Candidates : wstat[f] = "done" /\ dir[f].readable /\ TableAdmits(f)}

\* C15, the state part: at most one closure holds the write guard; the
\* shared set is exactly the candidates whose closure ended having decided
\* yes; the set read after the join is that set.
C15_Inv ==
    /\ Cardinality(Holders) <= 1
    /\ files_to_index = DecidedYes
    /\ (UploadBegun => files_to_index_set = DecidedYes)

\* C15: the state part always holds, and every step that changes the shared
\* set is the insert of the closure that holds the guard and releases it
\* with that step, adds that closure's path and removes nothing; the step
\* that reads and matches a file is taken without the guard and does not
\* end with it.
C15_LockDiscipline ==
    /\ []C15_Inv
    /\ [][files_to_index' # files_to_index =>
             \E f \in Holders :
                 /\ wstat'[f] = "done"
                 /\ files_to_index' = files_to_index \cup {f}]_vars
    /\ [][\A g \in files :
             (g \in DOMAIN wstat' /\ wstat[g] = "todo" /\ wstat'[g] # "todo") =>
                 wstat'[g] # "locked"]_vars

\* C15 witness: three admitted candidates, two inserted, the third holding
\* the guard.
C15_Witness ==
    /\ Cardinality(files_to_index) = 2
    /\ Cardinality(Holders) = 1
    /\ Cardinality(files) = 3

\* The run failed before the filter phase: the client could not be built.
SetupFailed == pc = "Panicked" /\ solr_collection_update_endpoint = None

\* An admitted file could not be resolved or read when its future ran.
UploadReadFailed == \E f \in Tasks : tstat[f] = "panicked"

\* The run is complete: every member has its outcome, the commit was sent,
\* on_finish was called last, the function returned.
Finished ==
    /\ pc = "Done"
    /\ \A f \in Tasks : tstat[f] = "done" /\ tres[f] \in Outcomes
    /\ Len(commits) = 1
    /\ events[Len(events)] = <<"on_finish", 0>>
    /\ ret = Some(N)

\* C16: with a bound C >= 1 and every candidate readable, under the fair
\* scheduling of FairSpec, the run ends: it finishes, unless the client
\* cannot be built or an admitted file is gone when its upload runs; and a
\* wait with members not yet started is always left.
C16_Terminates ==
    (config.concurrency >= 1 /\ ~SomeUnreadable) =>
        /\ <>(Finished \/ SetupFailed \/ UploadReadFailed)
        /\ (pc = "Awaiting" /\ Remaining # {}) ~> (pc # "Awaiting")

\* C16 witness: a run of three members with a bound of 1 has finished.
C16_Witness ==
    /\ Finished
    /\ N = 3
    /\ config.concurrency = 1

\* C17: whenever solr_post waits for the next completion, the requests in
\* flight number min(C, members without an outcome); with a member not yet
\* started they number C.
C17_WorkConserving ==
    pc = "Awaiting" =>
        /\ Cardinality(InFlight) =
              Min(config.concurrency, Cardinality({f \in Tasks : tstat[f] # "done"}))
        /\ Remaining # {} => Cardinality(InFlight) = config.concurrency

\* C17 witness: of three members one has completed and been handled; the
\* wait that follows has the other two in flight, the bound being 2.
C17_Witness ==
    /\ pc = "Awaiting"
    /\ config.concurrency = 2
    /\ N = 3
    /\ Cardinality(Handled) = 1
    /\ Cardinality(InFlight) = 2

\* The phase of the run a program point belongs to: Idle 1, Scanning 2 (the
\* walk is done, the client and endpoint are being set up), Filtering 3,
\* Uploading 4, Committing 5, Done 6; 0 is the failed run.
PhaseOf(p) ==
    CASE p = "Idle" -> 1
      [] p = "Scanned" -> 2
      [] p = "Filtering" -> 3
      [] p \in {"Filtered", "Uploading", "Awaiting", "Body"} -> 4
      [] p \in {"Committing", "CommitWait"} -> 5
      [] p = "Done" -> 6
      [] OTHER -> 0

\* C18: a step stays in its phase, enters the next one, or fails the run;
\* a failed run stays failed; a run that failed setting up the client has
\* started no closure, called no callback and sent no request.
C18_PhaseOrder ==
    /\ [][\/ PhaseOf(pc') = PhaseOf(pc)
           \/ (PhaseOf(pc) # 0 /\ PhaseOf(pc') = PhaseOf(pc) + 1)
           \/ (PhaseOf(pc) # 0 /\ PhaseOf(pc') = 0)]_vars
    /\ [](SetupFailed =>
            /\ \A f \in files : wstat[f] = "unspawned"
            /\ tstat = <<>> /\ posted = <<>>
            /\ events = <<>> /\ commits = <<>>)
    /\ [](PhaseOf(pc) >= 4 => events # <<>> \/ pc = "Filtered")

\* C18 witness: a run that went through every phase, with two uploads.
C18_Witness ==
    /\ pc = "Done"
    /\ N = 2
    /\ Len(commits) = 1
    /\ Len(events) = 4

\* C19, the state part: with an empty work set there is no upload future and
\* no request, on_next is never called, on_start was called with 0, the
\* commit is sent once, and the finished run has called on_start(0) and
\* on_finish and nothing else, and returned 0.
C19_Inv ==
    (UploadBegun /\ N = 0) =>
        /\ Tasks = {} /\ posted = <<>>
        /\ NextEvents = <<>> /\ indexed_count = 0
        /\ pc # "Filtered" => (events # <<>> /\ events[1] = <<"on_start", 0>>)
        /\ pc \in {"CommitWait", "Done"} => Len(commits) = 1
        /\ pc = "Done" =>
              /\ events = << <<"on_start", 0>>, <<"on_finish", 0>> >>
              /\ ret = Some(0)

\* C19: the state part always holds, and with a bound C >= 1 a run whose
\* work set is empty goes on to finish.
C19_EmptyWorkSet ==
    /\ []C19_Inv
    /\ (pc = "Filtered" /\ N = 0 /\ config.concurrency >= 1) ~> Finished

\* C19 witness: a finished run in which three candidates were all rejected.
C19_Witness ==
    /\ pc = "Done"
    /\ Cardinality(Candidates) = 3
    /\ N = 0
    /\ ret = Some(0)
    /\ Len(commits) = 1

\* C20, the state part: once an admitted file failed to resolve or read in
\* its future, the run has failed: that member has no request and no
\* outcome, no commit was sent, on_finish was not called, nothing returned.
C20_Inv ==
    UploadReadFailed =>
        /\ pc = "Panicked"
        /\ \A f \in Tasks : tstat[f] = "panicked" =>
              posted[f] = <<>> /\ tres[f] = NoResult /\ f \notin Handled
        /\ Len(NextEvents) = indexed_count
        /\ indexed_count <= Cardinality(Handled)
        /\ commits = <<>>
        /\ \A i \in 1..Len(events) : events[i][1] # "on_finish"
        /\ ret = None

\* C20: the state part always holds, and the failed run does nothing more:
\* no callback, no commit, no return.
C20_UploadReadAborts ==
    /\ []C20_Inv
    /\ [][pc = "Panicked" =>
             /\ pc' = "Panicked"
             /\ events' = events
             /\ commits' = commits
             /\ ret' = ret]_vars

\* C20 witness: of three members one was uploaded and notified; then a
\* file was gone when its future ran, and the run failed there.
C20_Witness ==
    /\ pc = "Panicked"
    /\ UploadReadFailed
    /\ N = 3
    /\ indexed_count = 1
    /\ events = << <<"on_start", 3>>, <<"on_next", 1>> >>

====
